---- MODULE Spec2Model ----
(***************************************************************************)
(* LazyVec<T, I = usize> (src/lib.rs): a vector whose cells are            *)
(* Cow<'static, T>, either Borrowed(default) or Owned(value).              *)
(*                                                                         *)
(* A container is the pair (len, raw).  Offsets are 0-based as in the      *)
(* source; the cell at offset i is raw[i + 1].  Every operation is an      *)
(* operator from a container (and its arguments) to an outcome record      *)
(*     [len, raw, res, ret]                                                *)
(* where res is "ok", "panic" (a failed assert!, a failed slice bounds     *)
(* check, an unwrap of None, an overflow check) or "ub" (an unchecked      *)
(* access outside the backing store).  A panic unwinds: (len, raw) are     *)
(* what the operation had written when it panicked.                        *)
(***************************************************************************)
EXTENDS Integers, Sequences, FiniteSets, TLC

\* ------------------------------------------------------------- bounds ---
MaxCap == 1          \* capacities given to with_len
MaxRaw == 2          \* the backing store is not grown past this many cells

\* --------------------------------------------------------- element type -
default == "x"                      \* the &'static T every Borrowed cell denotes
Values  == {"a", "b"}               \* values the caller pushes or writes
NoVal   == "none"                   \* no value returned
NoWrite == "nowrite"                \* a &mut T obtained and not written through
Elems   == Values \cup {default}

\* usize arithmetic is modular; the width is that of the target.  The
\* narrowest target width (16 bits) is used so that 2^w is an integer here.
UsizeModulus == 2 ^ 16
UsizeMax     == UsizeModulus - 1

Borrowed   == [tag |-> "Borrowed", val |-> default]
Owned(v)   == [tag |-> "Owned", val |-> v]
\* Cow::to_mut: clone the borrowed value into an owned one if necessary
to_mut(cell) == IF cell.tag = "Borrowed" THEN Owned(cell.val) ELSE cell

Outcome(l, r, res, ret) == [len |-> l, raw |-> r, res |-> res, ret |-> ret]

\* Vec::resize(new_len, value): truncate or extend with clones of value
resize(s, n, value) == [i \in 1..n |-> IF i <= Len(s) THEN s[i] ELSE value]

\* -------------------------------------------------------- constructors --
with_len(n) == [len |-> n, raw |-> [i \in 1..n |-> Borrowed]]

DEFAULT_LEN == 4 * 1024
new == with_len(DEFAULT_LEN)

\* ------------------------------------------------------ growth / reset --
grow_to(c, new_len) ==
    IF new_len > c.len
    THEN [len |-> new_len, raw |-> resize(c.raw, new_len, Borrowed)]
    ELSE [len |-> c.len, raw |-> c.raw]

\* grow_to(len); for i in 0..len { raw[i] = Borrowed }.  raw[i] is a checked
\* slice access: it panics at i = raw.len(), after the cells before it
\* have been reset.
reinit(c, n) ==
    LET g == grow_to(c, n)
        m == IF n <= Len(g.raw) THEN n ELSE Len(g.raw)
        r == [i \in 1..Len(g.raw) |-> IF i <= m THEN Borrowed ELSE g.raw[i]]
    IN  Outcome(g.len, r, IF n > Len(g.raw) THEN "panic" ELSE "ok", NoVal)

\* ----------------------------------------------------------- push / pop -
push(c, v) ==
    LET idx == c.len
    IN  IF c.len < Len(c.raw)
        THEN Outcome(c.len + 1, [c.raw EXCEPT ![c.len + 1] = Owned(v)], "ok", idx)
        ELSE Outcome(c.len, Append(c.raw, Owned(v)), "ok", idx)

\* swap(&mut raw[len], &mut retval) is a checked slice access; len -= 1 is
\* checked when the build has overflow checks and wraps otherwise; the
\* assert! on retval comes last.
pop(c, checks) ==
    IF c.len >= Len(c.raw)
    THEN Outcome(c.len, c.raw, "panic", NoVal)
    ELSE LET retval  == c.raw[c.len + 1]
             swapped == [c.raw EXCEPT ![c.len + 1] = Borrowed]
         IN  IF c.len = 0 /\ checks
             THEN Outcome(c.len, swapped, "panic", NoVal)
             ELSE LET l == (c.len - 1) % UsizeModulus
                  IN  IF retval.tag = "Owned"
                      THEN Outcome(l, swapped, "ok", retval.val)
                      ELSE Outcome(l, swapped, "panic", NoVal)

\* -------------------------------------------------------------- indexing -
\* assert!(idx < len); raw.get_unchecked(idx).  The outcomes are a set: an
\* unchecked access outside the backing store may yield anything.
index(c, idx) ==
    IF ~(idx < c.len)
    THEN {Outcome(c.len, c.raw, "panic", NoVal)}
    ELSE IF idx < Len(c.raw)
         THEN {Outcome(c.len, c.raw, "ok", c.raw[idx + 1].val)}
         ELSE {Outcome(c.len, c.raw, "ub", e) : e \in {default, NoVal}}

\* index_mut with to_mut left out: a cell that is not written stays as it was
index_mut_no_to_mut(c, idx, w) ==
    IF ~(idx < c.len)
    THEN {Outcome(c.len, c.raw, "panic", NoVal)}
    ELSE IF idx < Len(c.raw)
         THEN LET cell == c.raw[idx + 1]
                  held == IF w = NoWrite THEN cell ELSE Owned(w)
              IN  {Outcome(c.len, [c.raw EXCEPT ![idx + 1] = held], "ok", held.val)}
         ELSE {Outcome(c.len, c.raw, "ub", e) : e \in {default, NoVal}}

\* assert!(idx < len); raw.get_unchecked_mut(idx).to_mut(); the caller then
\* stores w through the reference unless w = NoWrite.
index_mut(c, idx, w) ==
    IF ~(idx < c.len)
    THEN {Outcome(c.len, c.raw, "panic", NoVal)}
    ELSE IF idx < Len(c.raw)
         THEN LET cell == to_mut(c.raw[idx + 1])
                  held == IF w = NoWrite THEN cell ELSE Owned(w)
              IN  {Outcome(c.len, [c.raw EXCEPT ![idx + 1] = held], "ok", held.val)}
         ELSE {Outcome(c.len, c.raw, "ub", e) : e \in {default, NoVal}}

\* ------------------------------------------------------- last_* accessors
\* assert!(!self.is_empty()); self.len - 1
last_idx(c) ==
    IF c.len = 0
    THEN Outcome(c.len, c.raw, "panic", NoVal)
    ELSE Outcome(c.len, c.raw, "ok", c.len - 1)

\* &self[I::from(self.last_idx())]
last_ref(c) ==
    IF last_idx(c).res = "panic"
    THEN {last_idx(c)}
    ELSE index(c, last_idx(c).ret)

\* &mut self[I::from(self.last_idx())]; the caller then stores w through the
\* reference unless w = NoWrite.
last_mut(c, w) ==
    IF last_idx(c).res = "panic"
    THEN {last_idx(c)}
    ELSE index_mut(c, last_idx(c).ret, w)

\* ------------------------------------------------------------- iteration -
Min(a, b) == IF a < b THEN a ELSE b

\* raw.iter().take(len).rev(): the offsets visited, in visiting order
iter_offsets(c) ==
    LET n == Min(c.len, Len(c.raw)) IN [k \in 1..n |-> n - k]

\* iter(), run to exhaustion: ret is the sequence of <<offset, value>> seen
iter(c) ==
    LET offs == iter_offsets(c)
    IN  Outcome(c.len, c.raw, "ok",
                [k \in 1..Len(offs) |-> <<offs[k], c.raw[offs[k] + 1].val>>])

\* iter_mut(), run to exhaustion: every visited cell goes through to_mut
iter_mut(c) ==
    LET offs == iter_offsets(c)
        n    == Len(offs)
        r    == [i \in 1..Len(c.raw) |-> IF i <= n THEN to_mut(c.raw[i]) ELSE c.raw[i]]
    IN  Outcome(c.len, r, "ok",
                [k \in 1..n |-> <<offs[k], r[offs[k] + 1].val>>])

\* ------------------------------------------------- disjoint mutable access
Range(s) == {s[k] : k \in 1..Len(s)}

\* idxs.into_iter().unique() yields fewer than N items iff idxs repeats one
has_duplicate(idxs) == Cardinality(Range(idxs)) < Len(idxs)

\* The cells at the offsets idxs[1..k] that lie inside raw, after to_mut
promote(raw, idxs, k) ==
    [i \in 1..Len(raw) |->
        IF \E j \in 1..k : idxs[j] = i - 1 THEN to_mut(raw[i]) ELSE raw[i]]

\* get_disjoint_mut with the deduplication left out: repeated offsets are
\* processed like distinct ones
get_disjoint_mut_no_unique(c, idxs) ==
    LET N   == Len(idxs)
        oob == {k \in 1..N : idxs[k] >= Len(c.raw)}
    IN  IF oob = {}
        THEN {Outcome(c.len, promote(c.raw, idxs, N), "ok", idxs)}
        ELSE LET first == CHOOSE k \in oob : \A j \in oob : k <= j
             IN  {Outcome(c.len, promote(c.raw, idxs, first - 1), "ub", <<>>),
                  Outcome(c.len, promote(c.raw, idxs, N), "ub", idxs)}

\* from_fn(|_| iter.next().unwrap()) panics on a repeated offset before any
\* cell is touched.  Otherwise the cells are promoted in the order given;
\* vec.add(idx) is unchecked, so an offset outside raw is undefined behaviour:
\* the call may stop there or go on and hand out a reference outside raw.
\* ret is the sequence of offsets the returned references designate.
get_disjoint_mut(c, idxs) ==
    LET N   == Len(idxs)
        oob == {k \in 1..N : idxs[k] >= Len(c.raw)}
    IN  IF has_duplicate(idxs)
        THEN {Outcome(c.len, c.raw, "panic", <<>>)}
        ELSE IF oob = {}
             THEN {Outcome(c.len, promote(c.raw, idxs, N), "ok", idxs)}
             ELSE LET first == CHOOSE k \in oob : \A j \in oob : k <= j
                  IN  {Outcome(c.len, promote(c.raw, idxs, first - 1), "ub", <<>>),
                       Outcome(c.len, promote(c.raw, idxs, N), "ub", idxs)}

\* A store through the k-th returned &mut T.  The reference designates the
\* owned value of the cell at offset hs[k]; a reference outside raw does not
\* designate a cell of the container.
write_handle(c, hs, k, v) ==
    IF hs[k] < Len(c.raw)
    THEN Outcome(c.len, [c.raw EXCEPT ![hs[k] + 1] = Owned(v)], "ok", v)
    ELSE Outcome(c.len, c.raw, "ub", NoVal)

\* ========================================================= state machine ==
VARIABLES
    len,              \* LazyVec::len
    raw,              \* LazyVec::raw
    overflow_checks,  \* whether the build checks integer overflow: "on" or
                      \* "off" once a call has depended on it, "either" until then
    handles,          \* offsets designated by the live &mut T of get_disjoint_mut
    op,               \* the last call: [name, arg, res, ret]
    pre,              \* the container when the last call was made: [len, raw]
    run,              \* the calls since construction, while they are pushes
                      \* followed by at most as many pops
    scen              \* how many calls of the capacity-4 scenario have been made
                      \* since construction, -1 once the calls depart from it

vars == <<len, raw, overflow_checks, handles, op, pre, run, scen>>

Self == [len |-> len, raw |-> raw]

Offsets == 0..MaxRaw          \* offsets and lengths the caller passes
Arities == {2, 3}             \* N of get_disjoint_mut::<N>

\* ---- bookkeeping of the calls made (no part of the container) ----
RunOff == [phase |-> "off", pushed |-> <<>>, popped |-> <<>>, ok |-> FALSE]

RunStep(name, arg, out) ==
    IF name = "push" /\ run.phase = "push"
    THEN [run EXCEPT !.pushed = Append(@, arg), !.ok = @ /\ out.res = "ok"]
    ELSE IF /\ name = "pop"
            /\ run.phase \in {"push", "pop"}
            /\ Len(run.popped) < Len(run.pushed)
         THEN [run EXCEPT !.phase = "pop", !.popped = Append(@, out.ret),
                          !.ok = @ /\ out.res = "ok"]
         ELSE RunOff

ScenarioCalls ==
    << <<"push", "a">>, <<"push", "b">>, <<"pop", NoVal>>, <<"index", 0>>, <<"index", 1>> >>

ScenStep(name, arg) ==
    IF /\ scen >= 0
       /\ scen < Len(ScenarioCalls)
       /\ name = ScenarioCalls[scen + 1][1]
       /\ arg = ScenarioCalls[scen + 1][2]
    THEN scen + 1
    ELSE -1

Call(name, arg, out, hs) ==
    /\ len' = out.len
    /\ raw' = out.raw
    /\ op' = [name |-> name, arg |-> arg, res |-> out.res, ret |-> out.ret]
    /\ pre' = Self
    /\ handles' = hs
    /\ run' = RunStep(name, arg, out)
    /\ scen' = ScenStep(name, arg)

Constructed(n) ==
    /\ len = with_len(n).len
    /\ raw = with_len(n).raw
    /\ op = [name |-> "with_len", arg |-> n, res |-> "ok", ret |-> NoVal]
    /\ overflow_checks = "either"
    /\ handles = <<>>
    /\ pre = [len |-> 0, raw |-> <<>>]
    /\ run = [phase |-> "push", pushed |-> <<>>, popped |-> <<>>, ok |-> TRUE]

Init ==
    /\ \E n \in 0..MaxCap : Constructed(n)
    /\ scen = -1

Reinit ==
    /\ \E n \in Offsets : Call("reinit", n, reinit(Self, n), <<>>)
    /\ UNCHANGED overflow_checks

GrowTo ==
    \E n \in Offsets :
        LET g == grow_to(Self, n)
        IN  /\ Call("grow_to", n, Outcome(g.len, g.raw, "ok", NoVal), <<>>)
            /\ UNCHANGED overflow_checks

\* A push that appends a cell is left out once the store has limit cells
PushWithin(limit) ==
    /\ len < Len(raw) \/ Len(raw) < limit
    /\ \E v \in Values : Call("push", v, push(Self, v), <<>>)
    /\ UNCHANGED overflow_checks

Push == PushWithin(MaxRaw)

\* len -= 1 is the one place that depends on the build's overflow checks,
\* and only when it is reached with len = 0.
Pop ==
    LET reached == len = 0 /\ len < Len(raw)
    IN  \E checks \in BOOLEAN :
            /\ overflow_checks = "either" \/ checks = (overflow_checks = "on")
            /\ Call("pop", NoVal, pop(Self, checks), <<>>)
            /\ overflow_checks' = IF ~reached THEN overflow_checks
                                  ELSE IF checks THEN "on" ELSE "off"

IndexAt(offsets) ==
    /\ \E i \in offsets : \E out \in index(Self, i) : Call("index", i, out, <<>>)
    /\ UNCHANGED overflow_checks

Index == IndexAt(Offsets)

IndexMut ==
    /\ \E i \in Offsets, w \in Values \cup {NoWrite} :
          \E out \in index_mut(Self, i, w) : Call("index_mut", <<i, w>>, out, <<>>)
    /\ UNCHANGED overflow_checks

LastIdx == Call("last_idx", NoVal, last_idx(Self), <<>>) /\ UNCHANGED overflow_checks

LastRef ==
    /\ \E out \in last_ref(Self) : Call("last_ref", NoVal, out, <<>>)
    /\ UNCHANGED overflow_checks

LastMut ==
    /\ \E w \in Values \cup {NoWrite} :
          \E out \in last_mut(Self, w) : Call("last_mut", w, out, <<>>)
    /\ UNCHANGED overflow_checks

Iter == Call("iter", NoVal, iter(Self), <<>>) /\ UNCHANGED overflow_checks

IterMut == Call("iter_mut", NoVal, iter_mut(Self), <<>>) /\ UNCHANGED overflow_checks

GetDisjointMut ==
    /\ \E N \in Arities : \E idxs \in [1..N -> Offsets] :
          \E out \in get_disjoint_mut(Self, idxs) :
              Call("get_disjoint_mut", idxs, out, out.ret)
    /\ UNCHANGED overflow_checks

\* The caller stores through one of the references it holds, at offset
\* handles[k], and lets the borrow end.
WriteHandle ==
    /\ handles # <<>>
    /\ \E k \in 1..Len(handles), v \in Values :
          Call("write_handle", <<handles[k], v>>, write_handle(Self, handles, k, v), <<>>)
    /\ UNCHANGED overflow_checks

Next ==
    \/ Reinit
    \/ GrowTo
    \/ Push
    \/ Pop
    \/ Index
    \/ IndexMut
    \/ LastIdx
    \/ LastRef
    \/ LastMut
    \/ Iter
    \/ IterMut
    \/ GetDisjointMut
    \/ WriteHandle

Spec == Init /\ [][Next]_vars

\* ---- the scenario of the capacity-4 container: its constructor, and the
\* ---- three operations it calls, on a store of up to ScenarioRaw cells
ScenarioRaw == 6

InitScenario ==
    /\ Constructed(4)
    /\ scen = 0

ScenarioPush == PushWithin(ScenarioRaw)

ScenarioIndex == IndexAt(0..ScenarioRaw)

NextScenario ==
    \/ ScenarioPush
    \/ Pop
    \/ ScenarioIndex

SpecScenario == InitScenario /\ [][NextScenario]_vars

\* ================================================================ claims ==
Reverse(s) == [i \in 1..Len(s) |-> s[Len(s) + 1 - i]]

\* The outcomes of an indexed read at offset i in the current state
ReadsAt(i) == index(Self, i)

\* C1: on a freshly constructed container, k pushes followed by k pops all
\* succeed, the pops return the pushed values in reverse push order, and
\* len() is 0 afterwards.
C1_PushPopRoundTrip ==
    (run.phase = "pop" /\ Len(run.popped) = Len(run.pushed)) =>
        /\ run.ok
        /\ run.popped = Reverse(run.pushed)
        /\ len = 0

\* C2: in every reachable state 0 <= len <= number of physical cells.
C2_LenWithinStore == 0 <= len /\ len <= Len(raw)

\* C3: push(v) returns the length before the call, stores Owned(v) at that
\* offset, increases the length by exactly 1, and an indexed read at the
\* returned index then succeeds and yields v.
C3_PushContract ==
    op.name = "push" =>
        /\ op.res = "ok"
        /\ op.ret = pre.len
        /\ len = pre.len + 1
        /\ op.ret < Len(raw)
        /\ raw[op.ret + 1] = Owned(op.arg)
        /\ \A out \in ReadsAt(op.ret) : out.res = "ok" /\ out.ret = op.arg

\* C4: when len > 0 and the cell at offset len - 1 is Owned, pop() returns
\* that cell's value, leaves that slot Borrowed, decrements len by exactly 1
\* and leaves every other cell unchanged.
C4_PopContract ==
    (/\ op.name = "pop"
     /\ pre.len > 0
     /\ pre.len <= Len(pre.raw)
     /\ pre.raw[pre.len].tag = "Owned") =>
        /\ op.res = "ok"
        /\ op.ret = pre.raw[pre.len].val
        /\ len = pre.len - 1
        /\ raw = [pre.raw EXCEPT ![pre.len] = Borrowed]

\* C5: immediately after with_len(label, N, default): len() = 0, the backing
\* store holds at least N cells, and an indexed read fails at every offset.
C5_WithLenEmpty ==
    op.name = "with_len" =>
        /\ len = 0
        /\ Len(raw) >= op.arg
        /\ \A i \in 0..(op.arg + 1) : \A out \in ReadsAt(i) : out.res = "panic"

\* C6: on a container of capacity 4 and default "x": push("a") returns 0,
\* push("b") returns 1, pop() returns "b" and len() = 1, the read at 0
\* yields "a", the read at 1 fails.
C6_Scenario ==
    /\ scen = 1 => op.res = "ok" /\ op.ret = 0
    /\ scen = 2 => op.res = "ok" /\ op.ret = 1
    /\ scen = 3 => op.res = "ok" /\ op.ret = "b" /\ len = 1
    /\ scen = 4 => op.res = "ok" /\ op.ret = "a"
    /\ scen = 5 => op.res = "panic"

\* C7: an indexed read or write at offset i fails when i >= len and
\* succeeds when i < len; a failing access changes neither a cell nor len.
C7_IndexBounds ==
    /\ op.name = "index" =>
          IF op.arg < pre.len
          THEN op.res = "ok"
          ELSE op.res = "panic" /\ raw = pre.raw /\ len = pre.len
    /\ op.name = "index_mut" =>
          IF op.arg[1] < pre.len
          THEN op.res = "ok"
          ELSE op.res = "panic" /\ raw = pre.raw /\ len = pre.len

\* C8: with len = 0, pop() fails: it returns no value and does not leave
\* len decremented (wrapped) below 0.
C8_PopEmptyFails ==
    (op.name = "pop" /\ pre.len = 0) =>
        /\ op.res = "panic"
        /\ op.ret = NoVal
        /\ len = 0

\* C9: get_disjoint_mut fails whenever two of the supplied offsets are equal,
\* whatever their positions, and then no cell has been promoted: the
\* container is as it was and no reference has been handed out.
C9_DuplicateOffsetsFail ==
    (/\ op.name = "get_disjoint_mut"
     /\ \E j, k \in 1..Len(op.arg) : j < k /\ op.arg[j] = op.arg[k]) =>
        /\ op.res = "panic"
        /\ raw = pre.raw
        /\ len = pre.len
        /\ handles = <<>>

\* C9 happens: three offsets, the last two equal, the first one at a cell
\* that was Borrowed and that a promotion would have changed.
C9_Witness ==
    /\ op.name = "get_disjoint_mut"
    /\ Len(op.arg) = 3
    /\ op.arg[1] # op.arg[2]
    /\ op.arg[2] = op.arg[3]
    /\ op.arg[1] < Len(pre.raw)
    /\ pre.raw[op.arg[1] + 1].tag = "Borrowed"
    /\ op.res = "panic"

\* C10: for pairwise-distinct offsets each below len, in any order,
\* get_disjoint_mut succeeds and its k-th reference designates the cell at
\* the k-th offset, now Owned; a write through a reference changes the cell
\* at its offset, as an indexed read there then shows, and no other cell.
C10_DisjointHandles ==
    /\ (/\ op.name = "get_disjoint_mut"
        /\ \A j, k \in 1..Len(op.arg) : j < k => op.arg[j] # op.arg[k]
        /\ \A k \in 1..Len(op.arg) : op.arg[k] < pre.len) =>
           /\ op.res = "ok"
           /\ handles = op.arg
           /\ len = pre.len
           /\ \A k \in 1..Len(op.arg) :
                 /\ op.arg[k] < Len(raw)
                 /\ raw[op.arg[k] + 1] = to_mut(pre.raw[op.arg[k] + 1])
    /\ (op.name = "write_handle" /\ op.arg[1] < pre.len) =>
           /\ op.res = "ok"
           /\ op.arg[1] < Len(pre.raw)
           /\ raw = [pre.raw EXCEPT ![op.arg[1] + 1] = Owned(op.arg[2])]
           /\ len = pre.len
           /\ \A out \in ReadsAt(op.arg[1]) : out.res = "ok" /\ out.ret = op.arg[2]

\* The offsets of the cells before the last call
PreOffsets == 0..(Len(pre.raw) - 1)

\* The cell at offset i is after the last call what it was before it
Kept(i) == i < Len(raw) /\ raw[i + 1] = pre.raw[i + 1]

\* The cell at offset i, Owned before the last call, is still Owned
StillOwned(i) == i < Len(raw) /\ raw[i + 1].tag = "Owned"

\* C11: push and pop are the only operations that change the logical
\* length: grow_to, reinit, indexed read and write, the last_* accessors,
\* iteration and get_disjoint_mut leave len() unchanged.
C11_OnlyPushPopChangeLen ==
    op.name \notin {"with_len", "push", "pop"} => len = pre.len

\* C12: grow_to(M) with M <= number of physical cells is a no-op: the
\* cells, their number and the logical length are unchanged.
C12_GrowToNoOp ==
    (op.name = "grow_to" /\ op.arg <= Len(pre.raw)) =>
        /\ raw = pre.raw
        /\ len = pre.len

\* C13: after reinit(n) the backing store has at least n cells, every cell
\* at an offset < n is Borrowed, and the cells at offsets >= n are what they
\* were before.
C13_ReinitResets ==
    op.name = "reinit" =>
        /\ Len(raw) >= op.arg
        /\ \A i \in 0..(op.arg - 1) : raw[i + 1] = Borrowed
        /\ \A i \in PreOffsets : i >= op.arg => Kept(i)

\* C14: when len > 0 and the cell at offset len - 1 is still Borrowed,
\* pop() fails instead of returning a value.
C14_PopSharedFails ==
    (/\ op.name = "pop"
     /\ pre.len > 0
     /\ pre.len <= Len(pre.raw)
     /\ pre.raw[pre.len].tag = "Borrowed") =>
        /\ op.res = "panic"
        /\ op.ret = NoVal

\* C15: last_idx, last_ref and last_mut fail when len = 0; otherwise
\* last_idx returns len - 1 and last_ref / last_mut designate the cell at
\* that offset, which right after a push is the cell holding the pushed value.
C15_LastAccessors ==
    /\ (op.name \in {"last_idx", "last_ref", "last_mut"} /\ pre.len = 0) =>
           op.res = "panic" /\ raw = pre.raw
    /\ (op.name = "last_idx" /\ pre.len > 0) =>
           op.res = "ok" /\ op.ret = pre.len - 1
    /\ (op.name = "last_ref" /\ pre.len > 0) =>
           /\ op.res = "ok"
           /\ pre.len <= Len(pre.raw)
           /\ op.ret = pre.raw[pre.len].val
    /\ (op.name = "last_mut" /\ pre.len > 0) =>
           /\ op.res = "ok"
           /\ pre.len <= Len(pre.raw)
           /\ raw[pre.len].tag = "Owned"
           /\ op.ret = raw[pre.len].val
           /\ \A i \in PreOffsets : i # pre.len - 1 => Kept(i)
    /\ op.name = "push" =>
           /\ last_idx(Self).res = "ok"
           /\ last_idx(Self).ret = op.ret
           /\ \A out \in last_ref(Self) : out.res = "ok" /\ out.ret = op.arg

\* C16: an Owned cell becomes Borrowed, or loses its value, only through
\* pop, for the last live cell, or through reinit(n), for offsets < n.  push,
\* grow_to, the reads and iteration leave every Owned cell as it is;
\* the mutable accesses leave it Owned.
C16_OwnedKept ==
    \A i \in PreOffsets :
        pre.raw[i + 1].tag = "Owned" =>
            /\ op.name \in {"push", "grow_to", "index", "last_idx", "last_ref",
                            "iter", "iter_mut", "get_disjoint_mut"} => Kept(i)
            /\ op.name \in {"index_mut", "last_mut", "write_handle"} => StillOwned(i)
            /\ op.name = "pop" => (Kept(i) \/ i = pre.len - 1)
            /\ op.name = "reinit" => (Kept(i) \/ i < op.arg)

\* C17: a successful indexed read changes no cell; a successful mutable
\* indexed access at offset i leaves cell i Owned, holding the stored value
\* or else a clone of the default if it was Borrowed and its previous value
\* if it was Owned, and leaves every other cell and the length unchanged;
\* every Borrowed cell still denotes the default.
C17_CopyOnWrite ==
    /\ (op.name = "index" /\ op.res = "ok") =>
           raw = pre.raw /\ len = pre.len
    /\ (op.name = "index_mut" /\ op.res = "ok") =>
           LET i == op.arg[1]
               w == op.arg[2]
           IN  /\ i < Len(pre.raw)
               /\ len = pre.len
               /\ Len(raw) = Len(pre.raw)
               /\ raw[i + 1].tag = "Owned"
               /\ raw[i + 1].val = IF w # NoWrite THEN w
                                   ELSE IF pre.raw[i + 1].tag = "Borrowed" THEN default
                                   ELSE pre.raw[i + 1].val
               /\ \A j \in PreOffsets : j # i => Kept(j)
    /\ \A j \in 1..Len(raw) : raw[j].tag = "Borrowed" => raw[j].val = default

\* C17 happens: a mutable access that stores nothing, at a Borrowed cell,
\* next to another Borrowed cell.
C17_Witness ==
    /\ op.name = "index_mut"
    /\ op.res = "ok"
    /\ op.arg[2] = NoWrite
    /\ pre.raw[op.arg[1] + 1].tag = "Borrowed"
    /\ \E j \in PreOffsets : j # op.arg[1] /\ pre.raw[j + 1].tag = "Borrowed"

\* C18: iter() and iter_mut(), run to exhaustion, visit exactly the offsets
\* len - 1, ..., 0 in that order; iter() changes no cell; iter_mut() leaves
\* every cell at an offset < len Owned and every other cell unchanged.
C18_IterOrder ==
    op.name \in {"iter", "iter_mut"} =>
        /\ op.res = "ok"
        /\ len = pre.len
        /\ Len(op.ret) = pre.len
        /\ \A k \in 1..Len(op.ret) : op.ret[k][1] = pre.len - k
        /\ op.name = "iter" => raw = pre.raw
        /\ op.name = "iter_mut" =>
              /\ Len(raw) = Len(pre.raw)
              /\ \A i \in PreOffsets :
                    IF i < pre.len
                    THEN /\ raw[i + 1].tag = "Owned"
                         /\ raw[i + 1].val = pre.raw[i + 1].val
                    ELSE Kept(i)

\* C19: get_disjoint_mut with pairwise-distinct offsets succeeds when every
\* offset is inside the backing store, at or above len included, and fails
\* when some offset is outside it.
C19_DisjointBounded ==
    (/\ op.name = "get_disjoint_mut"
     /\ \A j, k \in 1..Len(op.arg) : j < k => op.arg[j] # op.arg[k]) =>
        IF \A k \in 1..Len(op.arg) : op.arg[k] < Len(pre.raw)
        THEN op.res = "ok" /\ handles = op.arg
        ELSE op.res = "panic"

\* C20: when pop() fails, the logical length and every cell are the same
\* after the call as before it.
C20_PopFailureAtomic ==
    (op.name = "pop" /\ op.res = "panic") =>
        /\ len = pre.len
        /\ raw = pre.raw

====
